---- MODULE Spec2Model ----
(***************************************************************************)
(* Backup/restore orchestration engine of the WoW settings backup tool:    *)
(* BackupService (run lock, backup and restore stages, retention           *)
(* pruning), CompressionService.compressDirectory (promise settlement),    *)
(* SchedulerService (primary cron job, fallback interval timer, next and   *)
(* last run time) and the history/config stores they write to.             *)
(*                                                                         *)
(* Time is counted in whole minutes.  A Date is Some(t), null is None.     *)
(* One action is one JavaScript macro-task: the synchronous code that runs *)
(* from the resumption of an awaited promise (or from a timer firing) up   *)
(* to the next await, microtask continuations of the caller included.      *)
(***************************************************************************)
EXTENDS Integers, Sequences, FiniteSets, TLC

\* ---------------------------------------------------------------- bounds
MaxTime == 1
MaxRecords == 2
MaxOps == 2
MaxArchives == 3
MaxPending == 1

\* ------------------------------------------------------- program constants
maxHistoryItems == 100
MinutesPerDay == 1440
DefaultRetentionDays == 30
DefaultIntervalMinutes == 60

\* ---------------------------------------------------------------- options
None == <<>>
Some(x) == <<x>>
Val(o) == o[1]

Take(s, n) == IF Len(s) <= n THEN s ELSE SubSeq(s, 1, n)

Slots == 1..MaxOps

VARIABLES
    now,                \* wall clock, minutes
    alive,              \* the process has not been torn down by an uncaught exception
    config,             \* ConfigService store (scheduler and retention fields)
    lastScheduledBackup,\* ConfigService store, persisted last scheduled run
    isRunning,          \* BackupService.isRunning (the run lock)
    pc,                 \* per in-flight call: the await it is suspended on
    kind,               \* per in-flight call: manual | scheduled | restore
    startTime,          \* per in-flight call: Date.now() at entry
    backupPath,         \* per in-flight call: archive name chosen before compressing
    raised,             \* per in-flight call: the stage whose exception was swallowed
    history,            \* BackupHistoryService store, newest first
    tempDir,            \* staging directory: absent | empty | staged
    backupDir,          \* destination directory: set of files
    reply,              \* settlement of the most recently finished call
    isActive,           \* SchedulerService.isActive
    scheduledJob,       \* SchedulerService.scheduledJob (node-schedule job handle)
    fallbackInterval,   \* SchedulerService.fallbackInterval (setInterval handle)
    oneShot,            \* pending setTimeout(executeBackup, 1000) of the fallback
    nextRunTime,        \* SchedulerService.nextRunTime
    lastRunTime,        \* SchedulerService.lastRunTime
    escaped,            \* an error left a timer callback uncaught
    sourceDir,          \* compressDirectory: the tree it is given
    archive,            \* the archive file at outputPath, None while there is none
    outputDir,          \* extractArchive: the tree under outputDir
    codecPc,            \* position of the codec call in progress
    methodIx,           \* extractArchive: index of the method tried next
    attempts,           \* extractArchive: the methods tried so far, with their result
    readFailure,        \* compressDirectory: the file that could not be read, if any
    warnings,           \* compressDirectory: number of logger.warn calls
    delivered,          \* compressDirectory: percentages handed to progressCallback
    platform,           \* process.platform
    wowTree,            \* <wowPath>/<wowVersion>: per folder its files, None if absent
    restoreTree,        \* <tempDir>/restore: per folder its files, None if absent
    restoring,          \* restoreBackup in flight: the content of its archive
    restorePc,          \* restoreBackup in flight: the await it is suspended on
    restoreReply,       \* settlement of the restoreBackup call that finished last
    restoresLeft,       \* restore requests still to come
    sourceRoot,         \* config.wowPath: noRoot | noVersion | present
    stagedTree,         \* config.tempDir: per folder its files, None if absent
    stagePc,            \* performBackup in flight: the await it is suspended on
    stageReply,         \* settlement of the performBackup call
    archived,           \* the tree compressDirectory has written into the new archive
    emitted,            \* percentages handed to progressCallback, in thirds of a percent
    fired               \* number of times the cron job has fired since start()

envVars == <<now, alive, config, lastScheduledBackup>>
orchVars == <<isRunning, pc, kind, startTime, backupPath, raised, history, tempDir, backupDir, reply>>
schedVars == <<isActive, scheduledJob, fallbackInterval, oneShot, nextRunTime, lastRunTime, escaped>>
codecVars == <<sourceDir, archive, outputDir, codecPc, methodIx, attempts, readFailure, warnings,
              delivered>>
restoreVars == <<platform, wowTree, restoreTree, restoring, restorePc, restoreReply, restoresLeft>>
stageVars == <<sourceRoot, stagedTree, stagePc, stageReply, archived, emitted>>
auxVars == <<codecVars, restoreVars, stageVars, fired>>
vars == <<envVars, orchVars, schedVars, auxVars>>

\* ------------------------------------------------------------ pure helpers

\* Math.round of a non-negative quotient n/d (round half up)
RoundDiv(n, d) == (2 * n + d) \div (2 * d)

\* SchedulerService.calculateIntervalMinutes
calculateIntervalMinutes(interval, unit) ==
    CASE unit = "minutes" -> interval
      [] unit = "hours"   -> interval * 60
      [] unit = "days"    -> interval * 60 * 24
      [] OTHER            -> DefaultIntervalMinutes

Clamp(lo, hi, x) == IF x < lo THEN lo ELSE IF x > hi THEN hi ELSE x

\* SchedulerService.createCronExpression.  The five-field string is kept as
\* its three varying fields; a field is <<"*">>, <<"*/", n>> or <<"=", v>>.
createCronExpression(intervalMinutes) ==
    LET m == IF intervalMinutes <= 0 THEN DefaultIntervalMinutes ELSE intervalMinutes
        hours == RoundDiv(m, 60)
        days == RoundDiv(m, 1440)
    IN  IF m < 60 THEN
            [min |-> <<"*/", Clamp(1, 59, m)>>, hr |-> <<"*">>, dom |-> <<"*">>]
        ELSE IF m = 60 THEN
            [min |-> <<"=", 0>>, hr |-> <<"*">>, dom |-> <<"*">>]
        ELSE IF m < 1440 THEN
            IF hours = 1 THEN [min |-> <<"=", 0>>, hr |-> <<"*">>, dom |-> <<"*">>]
            ELSE IF hours <= 23 THEN [min |-> <<"=", 0>>, hr |-> <<"*/", hours>>, dom |-> <<"*">>]
            ELSE [min |-> <<"=", 0>>, hr |-> <<"=", 0>>, dom |-> <<"*">>]
        ELSE IF m = 1440 THEN
            [min |-> <<"=", 0>>, hr |-> <<"=", 0>>, dom |-> <<"*">>]
        ELSE
            IF days <= 31 THEN [min |-> <<"=", 0>>, hr |-> <<"=", 0>>, dom |-> <<"*/", days>>]
            ELSE [min |-> <<"=", 0>>, hr |-> <<"=", 0>>, dom |-> <<"=", 1>>]

\* node-schedule: does a cron field match value v of a range starting at base
FieldMatches(f, v, base) ==
    CASE f[1] = "*"  -> TRUE
      [] f[1] = "*/" -> (v - base) % f[2] = 0
      [] f[1] = "="  -> v = f[2]

\* node-schedule: does the rule match minute t (t = 0 is midnight of the
\* first day of a month; months are taken as 31 days long)
CronMatches(rule, t) ==
    /\ FieldMatches(rule.min, t % 60, 0)
    /\ FieldMatches(rule.hr, (t \div 60) % 24, 0)
    /\ FieldMatches(rule.dom, ((t \div 1440) % 31) + 1, 1)

\* granularity at which a rule can match: every minute, hour or day
CronStep(rule) ==
    IF rule.min[1] # "=" THEN 1 ELSE IF rule.hr[1] # "=" THEN 60 ELSE 1440

\* node-schedule Job.nextInvocation(): the first matching instant after t
NextInvocation(rule, t) ==
    LET step == CronStep(rule)
        first == ((t \div step) + 1) * step
        k == CHOOSE i \in 0..61 :
                /\ CronMatches(rule, first + i * step)
                /\ \A j \in 0..(i - 1) : ~CronMatches(rule, first + j * step)
    IN  first + k * step

\* SchedulerService.calculateAndSetNextRunTime: the value stored in nextRunTime
calculateAndSetNextRunTime(intervalMinutes, lastRun, t) ==
    LET iv == IF intervalMinutes <= 0 THEN DefaultIntervalMinutes ELSE intervalMinutes
        baseTime == IF lastRun # None THEN Val(lastRun) ELSE t
    IN  Some(baseTime + iv)

\* SchedulerService.updateNextRunTime: the value stored in nextRunTime
updateNextRunTime(job, lastRun, cfg, t) ==
    IF job # None
    THEN Some(Val(job).next)
    ELSE calculateAndSetNextRunTime(
            calculateIntervalMinutes(cfg.scheduleInterval, cfg.scheduleUnit), lastRun, t)

\* A file name is the record of its three parts: what stands before the
\* time stamp, the time stamp (None when that part is not one), the extension.
BackupPrefix == "WoW-Backup-"

ZipExt == ".zip"

\* BackupService.generateBackupFileName: `WoW-Backup-${timestamp}.zip`
generateBackupFileName(t) == [prefix |-> BackupPrefix, stamp |-> Some(t), ext |-> ZipExt]

\* cleanOldBackups' filter: f.startsWith('WoW-Backup-') && f.endsWith('.zip')
IsBackupFileName(name) == name.prefix = BackupPrefix /\ name.ext = ZipExt

\* mutant: an archive whose age equals the retention period is deleted too
cleanOldBackups_Strict(files, cfg, t, failing) ==
    LET retentionDays == IF cfg.backupRetention = 0 THEN DefaultRetentionDays
                         ELSE cfg.backupRetention
    IN  files \ {f \in files : f.isBackup /\ (t - f.mtime) >= retentionDays * MinutesPerDay
                                 /\ f \notin failing}

\* BackupService.cleanOldBackups: the directory content it leaves behind.
\* failing = the files whose stat or unlink throws (all of them when the
\* directory cannot be read).
cleanOldBackups(files, cfg, t, failing) ==
    LET retentionDays == IF cfg.backupRetention = 0 THEN DefaultRetentionDays
                         ELSE cfg.backupRetention
        maxAge == retentionDays * MinutesPerDay
        backupFiles == {f \in files : f.isBackup}
        deleted == {f \in backupFiles : (t - f.mtime) > maxAge /\ f \notin failing}
    IN  files \ deleted

\* Date.getFullYear()/getMonth(): the calendar month of an instant, months
\* taken as 31 days long
MonthOf(t) == t \div (31 * MinutesPerDay)

\* ------------------------------------------------------------ orchestrator

\* mutant: the entry guard is missing
RunLockHeld_Absent == FALSE

\* BackupService.performBackup / restoreBackup entry guard: if (this.isRunning)
RunLockHeld == isRunning

\* mutant: the finally block is missing
LockAfterFinally_Kept == TRUE

\* the value the finally block writes to this.isRunning
LockAfterFinally == FALSE

\* the slot a newly accepted call occupies
FreeSlot == CHOOSE s \in Slots : pc[s] = "idle" /\ \A r \in Slots : r < s => pc[r] # "idle"

HasFreeSlot == \E s \in Slots : pc[s] = "idle"

\* BackupHistoryService.addFailedBackupEntry: history.unshift + slice(0, 100)
addFailedBackupEntry(h, type, duration) ==
    Take(<<[status |-> "failed", type |-> type, duration |-> duration]>> \o h,
         maxHistoryItems)

\* BackupHistoryService.addBackupEntry: no entry when the archive is missing
addBackupEntry(h, files, path, type, duration) ==
    IF \E f \in files : f.name = path
    THEN Take(<<[status |-> "completed", type |-> type, duration |-> duration]>> \o h,
              maxHistoryItems)
    ELSE h

\* ---- the history store with the fields of its items
\* BackupHistoryItem without id, version and sizeFormatted. name = basename
\* of the archive, hasPath = the path field is not "".

\* addBackupEntry: const backupItem = { name, path, size: stats.size,
\* date: new Date(), type, status: "completed", duration, filesCount }
backupItem(name, size, date, type, duration, filesCount) ==
    [name |-> name, hasPath |-> TRUE, size |-> size, date |-> date, type |-> type,
     status |-> "completed", duration |-> duration, filesCount |-> Some(filesCount)]

\* addFailedBackupEntry: const backupItem = { name: backupName, path: "",
\* size: 0, date: new Date(), type, status: "failed", duration }
failedBackupItem(backupName, date, type, duration) ==
    [name |-> backupName, hasPath |-> FALSE, size |-> 0, date |-> date, type |-> type,
     status |-> "failed", duration |-> duration, filesCount |-> None]

\* history.unshift(backupItem); history.slice(0, maxHistoryItems)
trimmedHistory(h, item) == Take(<<item>> \o h, maxHistoryItems)

\* BackupHistoryService.addBackupEntry with the item's fields: no entry
\* when fs.existsSync(backupPath) is false. stat = size of each file of the
\* directory
addBackupItem(h, files, stat, path, date, type, duration, filesCount) ==
    IF \E f \in files : f.name = path
    THEN LET f == CHOOSE g \in files : g.name = path
         IN  trimmedHistory(h, backupItem(path, stat[f], date, type, duration, filesCount))
    ELSE h

\* BackupHistoryService.addFailedBackupEntry with the item's fields
addFailedBackupItem(h, backupName, date, type, duration) ==
    trimmedHistory(h, failedBackupItem(backupName, date, type, duration))

\* getValidatedHistory: fs.readdirSync(backupDir).filter(startsWith
\* 'WoW-Backup-' && endsWith '.zip'), the entries in the order of their names,
\* which for archive names is the order of their time stamps
backupFilesOf(files) ==
    LET named == {f \in files : IsBackupFileName(f.name)}
        key(f) == IF f.name.stamp = None THEN 0 ELSE Val(f.name.stamp)
        rank == [f \in named |-> 1 + Cardinality({g \in named : key(g) < key(f)})]
    IN  [i \in 1..Cardinality(named) |-> CHOOSE f \in named : rank[f] = i]

\* discoveredBackups.sort((a, b) => b.date - a.date): stable, newest first
sortNewestFirst(s) ==
    LET pos == [i \in 1..Len(s) |->
                   1 + Cardinality({j \in 1..Len(s) : s[j].date > s[i].date})
                     + Cardinality({j \in 1..(i - 1) : s[j].date = s[i].date})]
    IN  [k \in 1..Len(s) |-> s[CHOOSE i \in 1..Len(s) : pos[i] = k]]

\* getValidatedHistory: storedByName.get(fileName), the last stored item
\* of that name (Map.set overwrites)
storedByName(h, name) ==
    LET ixs == {i \in 1..Len(h) : h[i].name = name}
    IN  IF ixs = {} THEN None ELSE Some(h[CHOOSE i \in ixs : \A j \in ixs : j <= i])

\* getValidatedHistory, the item pushed for the archive file f: the stored
\* completed item with path and size refreshed, otherwise a new completed
\* manual item dated by the file's mtime
discoveredItem(h, f, stat) ==
    LET storedItem == storedByName(h, f.name)
    IN  IF storedItem # None /\ Val(storedItem).status = "completed"
        THEN [Val(storedItem) EXCEPT !.hasPath = TRUE, !.size = stat[f]]
        ELSE [name |-> f.name, hasPath |-> TRUE, size |-> stat[f], date |-> f.mtime,
              type |-> "manual", status |-> "completed", duration |-> 0,
              filesCount |-> None]

\* BackupHistoryService.getValidatedHistory when the directory is scanned:
\* the list it stores under "backupHistory" and returns
getValidatedHistory(h, files, stat) ==
    LET backupFiles == backupFilesOf(files)
        discoveredBackups == [i \in 1..Len(backupFiles) |->
                                 discoveredItem(h, backupFiles[i], stat)]
        isFailed(item) == item.status = "failed"
        failedBackups == SelectSeq(h, isFailed)
    IN  sortNewestFirst(discoveredBackups \o failedBackups)

\* BackupHistoryService.deleteBackup: history.splice(backupIndex, 1)
splice(h, ix) == SubSeq(h, 1, ix - 1) \o SubSeq(h, ix + 1, Len(h))

\* the call of slot s settles: finally { isRunning = false }, promise settled
Settle(s, res) ==
    /\ isRunning' = LockAfterFinally
    /\ pc' = [pc EXCEPT ![s] = "idle"]
    /\ kind' = [kind EXCEPT ![s] = "none"]
    /\ startTime' = [startTime EXCEPT ![s] = None]
    /\ backupPath' = [backupPath EXCEPT ![s] = None]
    /\ raised' = [raised EXCEPT ![s] = "none"]
    /\ reply' = res

\* mutant: executeBackup without its try/catch; the rejection of
\* runScheduledBackup leaves the timer callback
executeBackupTail_NoCatch(ok, job, lastRun) ==
    [escaped |-> ~ok,
     persist |-> ok,
     next    |-> IF ok THEN updateNextRunTime(job, lastRun, config, now) ELSE nextRunTime]

\* SchedulerService.executeBackup after the awaited runScheduledBackup has
\* settled: persist on success, catch and log on error, updateNextRunTime
executeBackupTail(ok, job, lastRun) ==
    [escaped |-> FALSE,
     persist |-> ok,
     next    |-> updateNextRunTime(job, lastRun, config, now)]

\* the caller of an in-flight call resumes when the call settles
CallerResumes(k, ok) ==
    IF k = "scheduled"
    THEN LET t == executeBackupTail(ok, scheduledJob, lastRunTime)
         IN  /\ lastScheduledBackup' = IF t.persist THEN Some(now) ELSE lastScheduledBackup
             /\ nextRunTime' = t.next
             /\ escaped' = (escaped \/ t.escaped)
             /\ UNCHANGED <<isActive, scheduledJob, fallbackInterval, oneShot, lastRunTime>>
    ELSE UNCHANGED <<schedVars, lastScheduledBackup>>

\* BackupService.performBackup, catch block of an in-flight backup: failed
\* history record, rethrow, finally
BackupFails(s, stage) ==
    /\ history' = addFailedBackupEntry(history, kind[s], now - Val(startTime[s]))
    /\ Settle(s, "error")
    /\ CallerResumes(kind[s], FALSE)
    /\ UNCHANGED <<auxVars, now, alive, config>>

\* mutant: the entry guard throws inside the try block, so that the catch
\* block records a failure and the finally block releases the lock
RejectBackup_InsideTry(type) ==
    /\ reply' = "already_running"
    /\ history' = addFailedBackupEntry(history, type, 0)
    /\ isRunning' = LockAfterFinally
    /\ UNCHANGED <<pc, kind, startTime, backupPath, raised, tempDir, backupDir>>

\* BackupService.performBackup, entry guard taken: warn and throw, before
\* the try block
RejectBackup(type) ==
    /\ reply' = "already_running"
    /\ UNCHANGED <<isRunning, pc, kind, startTime, backupPath, raised, history,
                   tempDir, backupDir>>

\* BackupService.performBackup from the call to the first await:
\* entry guard, lock, validatePaths.  valid = the source paths exist.
PerformBackupEntry(type, valid) ==
    IF RunLockHeld THEN
        RejectBackup(type)
    ELSE IF ~valid THEN
        /\ Len(history) < MaxRecords
        /\ history' = addFailedBackupEntry(history, type, 0)
        /\ isRunning' = LockAfterFinally
        /\ reply' = "error"
        /\ UNCHANGED <<pc, kind, startTime, backupPath, raised, tempDir, backupDir>>
    ELSE
        /\ Len(history) < MaxRecords
        /\ HasFreeSlot
        /\ isRunning' = TRUE
        /\ pc' = [pc EXCEPT ![FreeSlot] = "mkTemp"]
        /\ kind' = [kind EXCEPT ![FreeSlot] = type]
        /\ startTime' = [startTime EXCEPT ![FreeSlot] = Some(now)]
        /\ UNCHANGED <<backupPath, raised, history, tempDir, backupDir, reply>>

\* does a performBackup call settle before its first await
SettlesAtEntry(valid) == RunLockHeld \/ ~valid

\* BackupService.runBackup: a manual request
RunBackup ==
    /\ alive
    /\ \E valid \in BOOLEAN : PerformBackupEntry("manual", valid)
    /\ UNCHANGED <<auxVars, envVars, schedVars>>

\* performBackup: await ensureDirectory(config.tempDir)
BackupMkTemp(s) ==
    /\ alive /\ pc[s] = "mkTemp"
    /\ \/ /\ tempDir' = IF tempDir = "absent" THEN "empty" ELSE tempDir
          /\ pc' = [pc EXCEPT ![s] = "mkDest"]
          /\ UNCHANGED <<auxVars, envVars, schedVars, isRunning, kind, startTime, backupPath, raised,
                         history, backupDir, reply>>
       \/ /\ BackupFails(s, "staging")
          /\ UNCHANGED <<tempDir, backupDir>>

\* performBackup: await ensureDirectory(config.backupDir)
BackupMkDest(s) ==
    /\ alive /\ pc[s] = "mkDest"
    /\ \/ /\ pc' = [pc EXCEPT ![s] = "copying"]
          /\ UNCHANGED <<auxVars, envVars, schedVars, isRunning, kind, startTime, backupPath, raised,
                         history, tempDir, backupDir, reply>>
       \/ /\ BackupFails(s, "staging")
          /\ UNCHANGED <<tempDir, backupDir>>

\* performBackup: await copyWoWFiles, then generateBackupFileName and the
\* synchronous start of compressDirectory
BackupCopy(s) ==
    /\ alive /\ pc[s] = "copying"
    /\ \/ /\ tempDir' = "staged"
          /\ pc' = [pc EXCEPT ![s] = "compressing"]
          /\ backupPath' = [backupPath EXCEPT ![s] = Some(generateBackupFileName(now))]
          /\ UNCHANGED <<auxVars, envVars, schedVars, isRunning, kind, startTime, raised,
                         history, backupDir, reply>>
       \/ /\ tempDir' \in {tempDir, "staged"}
          /\ BackupFails(s, "copying")
          /\ UNCHANGED backupDir

\* a file of the destination directory; isBackup = it is in cleanOldBackups'
\* backupFiles
DirFile(name, mtime) == [name |-> name, mtime |-> mtime, isBackup |-> IsBackupFileName(name)]

\* the archive file written by compressDirectory at outputPath
ArchiveFile(name, mtime) == DirFile(name, mtime)

WriteArchive(files, name, mtime) ==
    {f \in files : f.name # name} \cup {ArchiveFile(name, mtime)}

\* what compressDirectory's promise does when the output write stream emits
\* 'error': no listener is registered on it, the promise is never settled;
\* the unhandled 'error' event either leaves the call suspended for ever or
\* tears the process down
OutputErrorOutcomes == {"hung", "aborted"}

\* performBackup: await compressionService.compressDirectory
BackupCompress(s) ==
    /\ alive /\ pc[s] = "compressing"
    /\ \/ \* output 'close': resolve()
          /\ backupDir' = WriteArchive(backupDir, Val(backupPath[s]), now)
          /\ pc' = [pc EXCEPT ![s] = "cleanup"]
          /\ UNCHANGED <<auxVars, envVars, schedVars, isRunning, kind, startTime, backupPath, raised,
                         history, tempDir, reply>>
       \/ \* archive 'error' or a non-ENOENT 'warning': reject(err)
          /\ backupDir' \in {backupDir, WriteArchive(backupDir, Val(backupPath[s]), now)}
          /\ BackupFails(s, "compressing")
          /\ UNCHANGED tempDir
       \/ \* output 'error': neither resolve nor reject is ever called
          \E o \in OutputErrorOutcomes :
             /\ pc' = [pc EXCEPT ![s] = "hung"]
             /\ alive' = (o = "hung")
             /\ UNCHANGED <<auxVars, now, config, lastScheduledBackup, schedVars, isRunning, kind,
                            startTime, backupPath, raised, history, tempDir,
                            backupDir, reply>>

\* performBackup: await cleanupTempDirectory (its catch swallows the error)
BackupCleanup(s) ==
    /\ alive /\ pc[s] = "cleanup"
    /\ pc' = [pc EXCEPT ![s] = "pruning"]
    /\ \/ /\ tempDir' = "absent"
          /\ UNCHANGED raised
       \/ /\ UNCHANGED tempDir
          /\ raised' = [raised EXCEPT ![s] = "cleanup"]
    /\ UNCHANGED <<auxVars, envVars, schedVars, isRunning, kind, startTime, backupPath,
                   history, backupDir, reply>>

\* mutant: cleanOldBackups rethrows the error of a deletion that failed,
\* after the deletions that worked
BackupPrune_Rethrows(s) ==
    /\ alive /\ pc[s] = "pruning"
    /\ \E failing \in SUBSET backupDir :
          /\ backupDir' = cleanOldBackups(backupDir, config, now, failing)
          /\ IF failing = {}
             THEN /\ pc' = [pc EXCEPT ![s] = "counting"]
                  /\ UNCHANGED <<auxVars, envVars, schedVars, isRunning, kind, startTime,
                                 backupPath, raised, history, tempDir, reply>>
             ELSE /\ BackupFails(s, "pruning")
                  /\ UNCHANGED tempDir

\* performBackup: await cleanOldBackups (its catches swallow every error)
BackupPrune(s) ==
    /\ alive /\ pc[s] = "pruning"
    /\ pc' = [pc EXCEPT ![s] = "counting"]
    /\ \E failing \in SUBSET backupDir :
          /\ backupDir' = cleanOldBackups(backupDir, config, now, failing)
          /\ raised' = [raised EXCEPT ![s] = IF failing = {} THEN raised[s] ELSE "pruning"]
    /\ UNCHANGED <<auxVars, envVars, schedVars, isRunning, kind, startTime, backupPath,
                   history, tempDir, reply>>

\* performBackup: await countFilesInDirectory, addBackupEntry, finally
BackupRecord(s) ==
    /\ alive /\ pc[s] = "counting"
    /\ history' = addBackupEntry(history, backupDir, Val(backupPath[s]), kind[s],
                                 now - Val(startTime[s]))
    /\ Settle(s, "ok")
    /\ CallerResumes(kind[s], TRUE)
    /\ UNCHANGED <<auxVars, now, alive, config, tempDir, backupDir>>

\* BackupService.restoreBackup from the call to the first await: entry
\* guard, lock, existsSync(backupPath).  exists = the archive is there.
RestoreBackup ==
    /\ alive
    /\ \E exists \in BOOLEAN :
          /\ exists => backupDir # {}
          /\ IF RunLockHeld THEN
                 /\ reply' = "already_running"
                 /\ UNCHANGED <<isRunning, pc, kind, startTime>>
             ELSE IF ~exists THEN
                 /\ isRunning' = LockAfterFinally
                 /\ reply' = "error"
                 /\ UNCHANGED <<pc, kind, startTime>>
             ELSE
                 /\ HasFreeSlot
                 /\ isRunning' = TRUE
                 /\ pc' = [pc EXCEPT ![FreeSlot] = "r_mkdir"]
                 /\ kind' = [kind EXCEPT ![FreeSlot] = "restore"]
                 /\ startTime' = [startTime EXCEPT ![FreeSlot] = Some(now)]
                 /\ UNCHANGED reply
    /\ UNCHANGED <<auxVars, envVars, schedVars, backupPath, raised, history, tempDir,
                   backupDir>>

\* restoreBackup, catch block of an in-flight restore: rethrow, finally
RestoreFails(s) ==
    /\ Settle(s, "error")
    /\ UNCHANGED <<auxVars, envVars, schedVars, history, backupDir>>

\* restoreBackup: await ensureDirectory(tempDir/restore)
RestoreMkdir(s) ==
    /\ alive /\ pc[s] = "r_mkdir"
    /\ \/ /\ tempDir' = IF tempDir = "absent" THEN "empty" ELSE tempDir
          /\ pc' = [pc EXCEPT ![s] = "extracting"]
          /\ UNCHANGED <<auxVars, envVars, schedVars, isRunning, kind, startTime, backupPath, raised,
                         history, backupDir, reply>>
       \/ /\ RestoreFails(s)
          /\ UNCHANGED tempDir

\* restoreBackup: await compressionService.extractArchive
RestoreExtract(s) ==
    /\ alive /\ pc[s] = "extracting"
    /\ \/ /\ pc' = [pc EXCEPT ![s] = "restoring"]
          /\ UNCHANGED <<auxVars, envVars, schedVars, isRunning, kind, startTime, backupPath, raised,
                         history, tempDir, backupDir, reply>>
       \/ /\ RestoreFails(s)
          /\ UNCHANGED tempDir

\* restoreBackup: await restoreWoWFiles
RestoreFiles(s) ==
    /\ alive /\ pc[s] = "restoring"
    /\ \/ /\ pc' = [pc EXCEPT ![s] = "r_cleanup"]
          /\ UNCHANGED <<auxVars, envVars, schedVars, isRunning, kind, startTime, backupPath, raised,
                         history, tempDir, backupDir, reply>>
       \/ /\ RestoreFails(s)
          /\ UNCHANGED tempDir

\* restoreBackup: await cleanupTempDirectory(tempDir/restore), finally
RestoreCleanup(s) ==
    /\ alive /\ pc[s] = "r_cleanup"
    /\ Settle(s, "ok")
    /\ UNCHANGED <<auxVars, envVars, schedVars, history, tempDir, backupDir>>

\* --------------------------------------------------------------- scheduler

\* what schedule.scheduleJob does for start(): returns a job, returns null,
\* or throws
CronRegistrations == {"job", "null", "throws"}

\* SchedulerService.startFallbackScheduler: the interval timer it arms
startFallbackScheduler(intervalMinutes) ==
    Some([period |-> intervalMinutes, next |-> now + intervalMinutes])

\* mutant: start() without the fallback; a failed registration arms nothing
startHandles_NoFallback(reg, intervalMinutes) ==
    LET rule == createCronExpression(intervalMinutes)
    IN  IF reg = "job"
        THEN [job |-> Some([rule |-> rule, next |-> NextInvocation(rule, now)]),
              timer |-> fallbackInterval,
              shots |-> oneShot]
        ELSE [job |-> scheduledJob, timer |-> fallbackInterval, shots |-> oneShot]

\* SchedulerService.start: the handles armed for a registration outcome
startHandles(reg, intervalMinutes) ==
    LET rule == createCronExpression(intervalMinutes)
    IN  IF reg = "job"
        THEN [job |-> Some([rule |-> rule, next |-> NextInvocation(rule, now)]),
              timer |-> fallbackInterval,
              shots |-> oneShot]
        ELSE [job |-> scheduledJob,
              timer |-> startFallbackScheduler(intervalMinutes),
              shots |-> IF lastRunTime = None THEN oneShot + 1 ELSE oneShot]

\* SchedulerService.start
Start ==
    /\ alive
    /\ LET iv == calculateIntervalMinutes(config.scheduleInterval, config.scheduleUnit)
       IN  IF isActive \/ ~config.schedulerEnabled \/ iv <= 0
           THEN UNCHANGED schedVars
           ELSE \E reg \in CronRegistrations :
                   LET h == startHandles(reg, iv)
                   IN  /\ h.shots <= MaxPending
                       /\ scheduledJob' = h.job
                       /\ fallbackInterval' = h.timer
                       /\ oneShot' = h.shots
                       /\ isActive' = TRUE
                       /\ nextRunTime' = calculateAndSetNextRunTime(iv, lastRunTime, now)
                       /\ UNCHANGED <<lastRunTime, escaped>>
    /\ UNCHANGED <<auxVars, envVars, orchVars>>

\* SchedulerService.stop
Stop ==
    /\ alive
    /\ IF ~isActive
       THEN UNCHANGED schedVars
       ELSE /\ scheduledJob' = None
            /\ fallbackInterval' = None
            /\ isActive' = FALSE
            /\ nextRunTime' = None
            /\ lastRunTime' = None
            /\ UNCHANGED <<oneShot, escaped>>
    /\ UNCHANGED <<auxVars, envVars, orchVars>>

\* SchedulerService.getNextRunTime: the value it returns
getNextRunTime ==
    IF nextRunTime = None /\ isActive
    THEN calculateAndSetNextRunTime(
            calculateIntervalMinutes(config.scheduleInterval, config.scheduleUnit),
            lastRunTime, now)
    ELSE nextRunTime

\* SchedulerService.executeBackup from the timer callback to the first
\* await; job = the cron job handle after the library has re-armed it
ExecuteBackup(job) ==
    /\ lastRunTime' = Some(now)
    /\ \E valid \in BOOLEAN :
          /\ PerformBackupEntry("scheduled", valid)
          /\ IF SettlesAtEntry(valid)
             THEN LET t == executeBackupTail(FALSE, job, Some(now))
                  IN  /\ nextRunTime' = t.next
                      /\ escaped' = (escaped \/ t.escaped)
                      /\ lastScheduledBackup' = IF t.persist THEN Some(now)
                                                ELSE lastScheduledBackup
             ELSE UNCHANGED <<nextRunTime, escaped, lastScheduledBackup>>
    /\ UNCHANGED <<auxVars, now, alive, config, isActive>>

\* the cron job of start() fires
FirePrimary ==
    /\ alive
    /\ scheduledJob # None
    /\ Val(scheduledJob).next = now
    /\ LET rule == Val(scheduledJob).rule
           job == Some([rule |-> rule, next |-> NextInvocation(rule, now)])
       IN  /\ scheduledJob' = job
           /\ ExecuteBackup(job)
    /\ UNCHANGED <<fallbackInterval, oneShot>>

\* the setInterval timer of startFallbackScheduler fires
FireFallback ==
    /\ alive
    /\ fallbackInterval # None
    /\ Val(fallbackInterval).next = now
    /\ fallbackInterval' = Some([Val(fallbackInterval) EXCEPT !.next = now + Val(fallbackInterval).period])
    /\ ExecuteBackup(scheduledJob)
    /\ UNCHANGED <<scheduledJob, oneShot>>

\* the setTimeout(executeBackup, 1000) of startFallbackScheduler fires
FireOneShot ==
    /\ alive
    /\ oneShot > 0
    /\ oneShot' = oneShot - 1
    /\ ExecuteBackup(scheduledJob)
    /\ UNCHANGED <<scheduledJob, fallbackInterval>>

\* a minute passes; armed timers fire on time
Tick ==
    /\ alive
    /\ now < MaxTime
    /\ scheduledJob # None => Val(scheduledJob).next > now
    /\ fallbackInterval # None => Val(fallbackInterval).next > now
    /\ oneShot = 0
    /\ now' = now + 1
    /\ UNCHANGED <<auxVars, alive, config, lastScheduledBackup, orchVars, schedVars>>

\* ------------------------------------------------------------ archive codec
\* A directory tree is the set of its individually named files and the
\* number of its further files, which are read and written as one block.

FileNames == {"a.lua", "b.lua"}

BulkSizes == {0, 999, 1000}

Trees == [files : SUBSET FileNames, bulk : BulkSizes]

EmptyTree == [files |-> {}, bulk |-> 0]

\* a file left under outputDir by an earlier extraction
StaleTree == [files |-> {"stale.lua"}, bulk |-> 0]

SubTrees(t) == {[files |-> f, bulk |-> b] : f \in SUBSET t.files, b \in {0, t.bulk}}

\* writing the files w into the directory d
WriteInto(d, w) ==
    [files |-> d.files \cup w.files, bulk |-> IF w.bulk > d.bulk THEN w.bulk ELSE d.bulk]

\* CompressionService.countExtractedFiles: the files under dir, recursively
countExtractedFiles(dir) == Cardinality(dir.files) + dir.bulk

\* extractArchive: const methods = [yauzl, unzipper, 7z]
methods == <<"yauzl", "unzipper", "7z">>

\* extractArchive: if (extractedFileCount > 1000)
ClearsThreshold(extractedFileCount) == extractedFileCount > 1000

\* mutant: the loop of extractArchive does not return after a success
afterMethod_NoReturn(threw, extractedFileCount, ix) ==
    IF ix < Len(methods) THEN "next" ELSE "exhausted"

\* extractArchive, one turn of the loop over the methods, after method.fn()
\* has settled: return, go on with the next method, or leave the loop and
\* throw 'All extraction methods failed'
afterMethod(threw, extractedFileCount, ix) ==
    IF ~threw /\ ClearsThreshold(extractedFileCount) THEN "done"
    ELSE IF ix < Len(methods) THEN "next"
    ELSE "exhausted"

CodecIdle ==
    /\ sourceDir = EmptyTree
    /\ archive = None
    /\ outputDir = EmptyTree
    /\ codecPc = "idle"
    /\ methodIx = 1
    /\ attempts = <<>>
    /\ readFailure = None
    /\ warnings = 0
    /\ delivered = <<>>

\* error codes of a file that cannot be read: it is gone, or access is denied
ErrorCodes == {"ENOENT", "EACCES"}

\* how the archiver reports a file it cannot add: a 'warning' event when
\* the file cannot be stat-ed, an 'error' event when its content cannot be
\* read
ArchiverEvents == {"warning", "error"}

\* the failures of one file of the tree that a compression can meet.
\* statThrows = fs.statSync of the file throws in calculateTotalSize too
ReadFailures(tree) ==
    [file : tree.files, code : ErrorCodes, event : ArchiverEvents, statThrows : BOOLEAN]

\* compressDirectory, archive.on('warning'): if (err.code === 'ENOENT')
\* logger.warn, else reject(err)
warningRejects(code) == code # "ENOENT"

\* compressDirectory with the failure f: does the promise reject
compressRejects(f) ==
    IF f.event = "warning" THEN warningRejects(f.code) ELSE TRUE

\* compressDirectory with the failure f: the logger.warn calls, one of
\* calculateTotalSize when statSync throws, one of the 'warning' handler
\* when it does not reject
compressWarnings(f) ==
    (IF f.statThrows THEN 1 ELSE 0)
        + (IF f.event = "warning" /\ ~warningRejects(f.code) THEN 1 ELSE 0)

\* a JavaScript number: finite, NaN or Infinity
Finite(n) == [kind |-> "finite", value |-> n]
NaN == [kind |-> "NaN", value |-> 0]
Infinity == [kind |-> "Infinity", value |-> 0]

\* byte counts up to MaxBytes
MaxBytes == 2

\* compressDirectory, archive.on('progress'):
\* Math.round((processedSize / totalSize) * 100)
percentage(processedSize, totalSize) ==
    IF totalSize = 0
    THEN IF processedSize = 0 THEN NaN ELSE Infinity
    ELSE Finite(RoundDiv(processedSize * 100, totalSize))

\* the percentages of the 'progress' events of one compression: none, or
\* one event with progress.fs.processedBytes = processed. counted = the
\* sum of the sizes found by calculateTotalSize, which leaves out a file
\* whose stat failed and the bytes a file has gained since; computed =
\* totalSize has been assigned when the event arrives (always in
\* compressionService.ts, not before calculateTotalSizeAsync resolves in
\* the optimized service)
ProgressEvents ==
    {<<>>} \cup
    {<<percentage(processed, IF computed THEN counted ELSE 0)>> :
        processed \in 0..MaxBytes, counted \in 0..MaxBytes, computed \in BOOLEAN}

\* CompressionService.compressDirectory: calculateTotalSize, then
\* archive.directory(sourceDir, false) and finalize; the 'progress' events
\* report a percentage; output 'close' reports 100 and resolves, archive
\* 'error' and a 'warning' other than ENOENT reject
CompressDirectory ==
    /\ codecPc = "start"
    /\ \/ \* every file is read
          /\ archive' = Some(sourceDir)
          /\ codecPc' = "compressed"
          /\ UNCHANGED <<readFailure, warnings>>
       \/ \* the archive cannot be written
          /\ archive' = None
          /\ codecPc' = "compressFailed"
          /\ UNCHANGED <<readFailure, warnings>>
       \/ \* one file cannot be read
          \E f \in ReadFailures(sourceDir) :
             /\ readFailure' = Some(f)
             /\ warnings' = warnings + compressWarnings(f)
             /\ IF compressRejects(f)
                THEN archive' = None /\ codecPc' = "compressFailed"
                ELSE /\ archive' = Some([sourceDir EXCEPT !.files = @ \ {f.file}])
                     /\ codecPc' = "compressed"
    /\ \E events \in ProgressEvents :
          delivered' = events \o (IF codecPc' = "compressed" THEN <<Finite(100)>> ELSE <<>>)
    /\ UNCHANGED <<sourceDir, outputDir, methodIx, attempts>>
    /\ UNCHANGED <<envVars, orchVars, schedVars, restoreVars, stageVars, fired>>

\* CompressionService.extractArchive up to the first method: existsSync of
\* the archive, mkdirSync of outputDir
ExtractArchive ==
    /\ codecPc \in {"compressed", "compressFailed"}
    /\ codecPc' = IF archive = None THEN "notFound" ELSE "extracting"
    /\ UNCHANGED <<sourceDir, archive, outputDir, methodIx, attempts, readFailure, warnings,
                   delivered>>
    /\ UNCHANGED <<envVars, orchVars, schedVars, restoreVars, stageVars, fired>>

\* extractArchive, one turn of the loop: await method.fn(), which writes
\* some of the entries and resolves or rejects, then countExtractedFiles
ExtractWithMethod ==
    /\ codecPc = "extracting"
    /\ \E threw \in BOOLEAN, written \in SubTrees(Val(archive)) :
          LET dir == WriteInto(outputDir, written)
              extractedFileCount == countExtractedFiles(dir)
              then == afterMethod(threw, extractedFileCount, methodIx)
          IN  /\ outputDir' = dir
              /\ attempts' = Append(attempts,
                                  [name |-> methods[methodIx], threw |-> threw,
                                   count |-> extractedFileCount,
                                   whole |-> (written = Val(archive))])
              /\ codecPc' = IF then = "next" THEN "extracting" ELSE then
              /\ methodIx' = IF then = "next" THEN methodIx + 1 ELSE methodIx
    /\ UNCHANGED <<sourceDir, archive, readFailure, warnings, delivered>>
    /\ UNCHANGED <<envVars, orchVars, schedVars, restoreVars, stageVars, fired>>

\* ------------------------------------------------------ restore, in detail
\* BackupService.restoreBackup with the trees it reads and writes.

\* restoreWoWFiles: const foldersToRestore = ['Interface', 'WTF', 'Screenshots']
foldersToRestore == <<"Interface", "WTF", "Screenshots">>

FolderNames == {foldersToRestore[i] : i \in 1..Len(foldersToRestore)}

Files == {"x.lua", "y.lua"}

NoFolders == [f \in FolderNames |-> None]

Platforms == {"win32", "linux"}

\* robocopy's exit code, a bit mask: 1 = files were copied, 8 = some files
\* or directories could not be copied
robocopyExitCode(copied, failed) ==
    (IF copied # {} THEN 1 ELSE 0) + (IF failed # {} THEN 8 ELSE 0)

\* BackupService.robocopyFolder: execAsync rejects on a non-zero exit code;
\* the catch returns for error.code <= 7 and rethrows otherwise
robocopyFolderThrows(exitCode) == exitCode # 0 /\ ~(exitCode <= 7)

\* BackupService.rsyncFolder: execAsync rejects on any non-zero exit code
rsyncFolderThrows(failed) == failed # {}

\* restoreWoWFiles: does the copy of a folder, some of whose files cannot be
\* copied, throw
RestoreCopyThrows(copied, failed) ==
    IF platform = "win32" THEN robocopyFolderThrows(robocopyExitCode(copied, failed))
    ELSE rsyncFolderThrows(failed)

\* restoreWoWFiles, the loop from folder number ix on, up to its next await:
\* folders absent from sourceDir are passed over; for the first one present
\* the next await is the rm of the destination folder if that exists, the
\* copy otherwise; after the last folder restoreBackup awaits the cleanup
RECURSIVE restoreWoWFilesFrom(_, _, _)
restoreWoWFilesFrom(ix, src, dst) ==
    IF ix > Len(foldersToRestore) THEN [at |-> "cleanup", ix |-> 0]
    ELSE IF src[foldersToRestore[ix]] = None THEN restoreWoWFilesFrom(ix + 1, src, dst)
    ELSE IF dst[foldersToRestore[ix]] # None THEN [at |-> "rm", ix |-> ix]
    ELSE [at |-> "copy", ix |-> ix]

RestoreAt(where) == [at |-> where, ix |-> 0]

RestoreIdle ==
    /\ platform = "win32"
    /\ wowTree = NoFolders
    /\ restoreTree = NoFolders
    /\ restoring = None
    /\ restorePc = RestoreAt("idle")
    /\ restoreReply = "none"
    /\ restoresLeft = 0

\* restoreBackup: catch (rethrow) and finally
RestoreThrows ==
    /\ restorePc' = RestoreAt("idle")
    /\ restoring' = None
    /\ restoreReply' = "error"
    /\ isRunning' = LockAfterFinally

\* BackupService.restoreBackup from the call to its first await: entry
\* guard, lock, existsSync(backupPath)
StartRestore(content) ==
    /\ restorePc.at = "idle" /\ restoresLeft > 0
    /\ ~RunLockHeld
    /\ restoresLeft' = restoresLeft - 1
    /\ isRunning' = TRUE
    /\ restoring' = Some(content)
    /\ restorePc' = RestoreAt("mkdir")
    /\ restoreReply' = "none"
    /\ UNCHANGED <<platform, wowTree, restoreTree>>
    /\ UNCHANGED <<envVars, schedVars, codecVars, stageVars, fired, pc, kind, startTime,
                   backupPath, raised, history, tempDir, backupDir, reply>>

\* restoreBackup: await ensureDirectory(tempRestoreDir)
EnsureRestoreDir ==
    /\ restorePc.at = "mkdir"
    /\ \/ /\ restorePc' = RestoreAt("extract")
          /\ UNCHANGED <<restoring, restoreReply, isRunning>>
       \/ RestoreThrows
    /\ UNCHANGED <<platform, wowTree, restoreTree, restoresLeft>>
    /\ UNCHANGED <<envVars, schedVars, codecVars, stageVars, fired, pc, kind, startTime,
                   backupPath, raised, history, tempDir, backupDir, reply>>

\* the entries of an archive that an extraction writes: a folder of the
\* archive is created with some of its files
Extractable(content) ==
    {t \in [FolderNames -> {None} \cup {Some(fs) : fs \in SUBSET Files}] :
        \A f \in FolderNames :
            /\ content[f] = None => t[f] = None
            /\ (content[f] # None /\ t[f] # None) => Val(t[f]) \subseteq Val(content[f])}

\* extracting the entries written over the tree dir
ExtractInto(dir, written) ==
    [f \in FolderNames |->
        IF written[f] = None THEN dir[f]
        ELSE IF dir[f] = None THEN written[f]
        ELSE Some(Val(dir[f]) \cup Val(written[f]))]

\* restoreBackup: await extractArchive(backupPath, tempRestoreDir), then the
\* start of restoreWoWFiles
ExtractBackup ==
    /\ restorePc.at = "extract"
    /\ \E written \in Extractable(Val(restoring)) :
          /\ restoreTree' = ExtractInto(restoreTree, written)
          /\ \/ \* resolved: every directory entry was created, files whose
                \* stream failed were skipped with a warning
                /\ \A f \in FolderNames : Val(restoring)[f] # None => written[f] # None
                /\ restorePc' = restoreWoWFilesFrom(1, restoreTree', wowTree)
                /\ UNCHANGED <<restoring, restoreReply, isRunning>>
             \/ RestoreThrows
    /\ UNCHANGED <<platform, wowTree, restoresLeft>>
    /\ UNCHANGED <<envVars, schedVars, codecVars, stageVars, fired, pc, kind, startTime,
                   backupPath, raised, history, tempDir, backupDir, reply>>

\* restoreWoWFiles: await fsPromises.rm(destFolder, {recursive, force})
RemoveDestFolder ==
    /\ restorePc.at = "rm"
    /\ \/ /\ wowTree' = [wowTree EXCEPT ![foldersToRestore[restorePc.ix]] = None]
          /\ restorePc' = [at |-> "copy", ix |-> restorePc.ix]
          /\ UNCHANGED <<restoring, restoreReply, isRunning>>
       \/ /\ UNCHANGED wowTree
          /\ RestoreThrows
    /\ UNCHANGED <<platform, restoreTree, restoresLeft>>
    /\ UNCHANGED <<envVars, schedVars, codecVars, stageVars, fired, pc, kind, startTime,
                   backupPath, raised, history, tempDir, backupDir, reply>>

\* restoreWoWFiles: await robocopyFolder / rsyncFolder(sourceFolder,
\* destFolder), then the loop up to its next await
CopyRestoredFolder ==
    /\ restorePc.at = "copy"
    /\ LET folder == foldersToRestore[restorePc.ix]
           content == Val(restoreTree[folder])
       IN  \E failed \in SUBSET content :
              /\ wowTree' = [wowTree EXCEPT ![folder] = Some(content \ failed)]
              /\ IF RestoreCopyThrows(content \ failed, failed)
                 THEN RestoreThrows
                 ELSE /\ restorePc' = restoreWoWFilesFrom(restorePc.ix + 1, restoreTree, wowTree')
                      /\ UNCHANGED <<restoring, restoreReply, isRunning>>
    /\ UNCHANGED <<platform, restoreTree, restoresLeft>>
    /\ UNCHANGED <<envVars, schedVars, codecVars, stageVars, fired, pc, kind, startTime,
                   backupPath, raised, history, tempDir, backupDir, reply>>

\* restoreBackup: await cleanupTempDirectory(tempRestoreDir), whose catch
\* swallows the error; then the call resolves
CleanupRestoreDir ==
    /\ restorePc.at = "cleanup"
    /\ restoreTree' \in {NoFolders, restoreTree}
    /\ restorePc' = RestoreAt("idle")
    /\ restoring' = None
    /\ restoreReply' = "ok"
    /\ isRunning' = LockAfterFinally
    /\ UNCHANGED <<platform, wowTree, restoresLeft>>
    /\ UNCHANGED <<envVars, schedVars, codecVars, stageVars, fired, pc, kind, startTime,
                   backupPath, raised, history, tempDir, backupDir, reply>>

\* ------------------------------------------------------- backup, in detail
\* BackupService.performBackup with the trees it reads and writes and the
\* percentages it reports.

\* copyWoWFiles: const foldersToBackup = ['Interface', 'WTF', 'Screenshots']
foldersToBackup == <<"Interface", "WTF", "Screenshots">>

\* a percentage, in thirds of a percent
Percent(p) == 3 * p

\* copyWoWFiles: currentProgress before folder number ix, 20 + (ix - 1) * 50 / 3
copyProgress(ix) == Percent(20) + (ix - 1) * 50

\* percentages reported by the archive's 'progress' events of one
\* compression, Math.round((processedSize / totalSize) * 100), for a total
\* size that is positive and not less than the processed size
CompressPercents == {0, 50, 100}

\* BackupService.validatePaths: does it return without throwing
validatePaths(root) == root # "noRoot" /\ root # "noVersion"

\* copyWoWFiles, the loop from folder number ix on, up to its next await:
\* a folder missing from the source is passed over with a warning; before
\* the copy of one that exists currentProgress is reported; after the last
\* folder performBackup reports 70 and starts compressDirectory
RECURSIVE copyWoWFilesFrom(_, _)
copyWoWFilesFrom(ix, src) ==
    IF ix > Len(foldersToBackup)
    THEN [pc |-> [at |-> "compress", ix |-> 0], progress |-> <<Percent(70)>>]
    ELSE IF src[foldersToBackup[ix]] = None THEN copyWoWFilesFrom(ix + 1, src)
    ELSE [pc |-> [at |-> "copy", ix |-> ix], progress |-> <<copyProgress(ix)>>]

\* copyFolderRecursive (the copy on platforms other than win32): an entry
\* whose copy throws is logged and passed over inside the loop
copyFolderRecursiveThrows(failed) == FALSE

\* copyWoWFiles: does the copy of a folder, some of whose entries cannot be
\* copied, throw
BackupCopyThrows(copied, failed) ==
    IF platform = "win32" THEN robocopyFolderThrows(robocopyExitCode(copied, failed))
    ELSE copyFolderRecursiveThrows(failed)

\* BackupService.countFilesInDirectory: the files under dirPath; 0 when
\* the directory cannot be read
countFilesInDirectory(tree) ==
    LET present == {f \in FolderNames : tree[f] # None}
        sizes == [f \in present |-> Cardinality(Val(tree[f]))]
        RECURSIVE Sum(_)
        Sum(fs) == IF fs = {} THEN 0
                   ELSE LET f == CHOOSE g \in fs : TRUE IN sizes[f] + Sum(fs \ {f})
    IN  Sum(present)

\* size in bytes of the archive of a tree: one unit for the end record of
\* the zip, one for each file
archiveSize(tree) == 1 + countFilesInDirectory(tree)

\* fs.statSync(path).size of the files of the destination directory
statSync ==
    [f \in backupDir |->
        IF archived # None /\ f.name = generateBackupFileName(now)
        THEN archiveSize(Val(archived)) ELSE 1]

StageIdle ==
    /\ sourceRoot = "present"
    /\ stagedTree = NoFolders
    /\ stagePc = RestoreAt("idle")
    /\ stageReply = "none"
    /\ archived = None
    /\ emitted = <<>>

\* performBackup: catch (failed history record, rethrow) and finally
StageThrows ==
    /\ history' = addFailedBackupItem(history, generateBackupFileName(now), now, "manual",
                                      now - Val(startTime[1]))
    /\ stagePc' = RestoreAt("idle")
    /\ stageReply' = "error"
    /\ isRunning' = LockAfterFinally

\* BackupService.performBackup from the call to its first await: entry
\* guard, lock, progress 0, validatePaths, progress 10
StartBackup ==
    /\ stagePc.at = "idle" /\ stageReply = "none"
    /\ ~RunLockHeld
    /\ startTime' = [startTime EXCEPT ![1] = Some(now)]
    /\ IF validatePaths(sourceRoot)
       THEN /\ isRunning' = TRUE
            /\ emitted' = emitted \o <<Percent(0), Percent(10)>>
            /\ stagePc' = RestoreAt("mkTemp")
            /\ UNCHANGED <<history, stageReply>>
       ELSE /\ emitted' = emitted \o <<Percent(0)>>
            /\ history' = addFailedBackupItem(history, generateBackupFileName(now), now,
                                              "manual", 0)
            /\ stagePc' = RestoreAt("idle")
            /\ stageReply' = "error"
            /\ isRunning' = LockAfterFinally
    /\ UNCHANGED <<sourceRoot, stagedTree, archived>>
    /\ UNCHANGED <<envVars, schedVars, codecVars, restoreVars, fired, pc, kind, backupPath, raised,
                   tempDir, backupDir, reply>>

\* performBackup: await ensureDirectory(config.tempDir)
StageEnsureTemp ==
    /\ stagePc.at = "mkTemp"
    /\ \/ /\ stagePc' = RestoreAt("mkDest")
          /\ UNCHANGED <<history, stageReply, isRunning>>
       \/ StageThrows
    /\ UNCHANGED <<sourceRoot, stagedTree, archived, emitted>>
    /\ UNCHANGED <<envVars, schedVars, codecVars, restoreVars, fired, pc, kind, startTime, backupPath,
                   raised, tempDir, backupDir, reply>>

\* performBackup: await ensureDirectory(config.backupDir), progress 20,
\* then copyWoWFiles up to its first await
StageEnsureDest ==
    /\ stagePc.at = "mkDest"
    /\ \/ LET then == copyWoWFilesFrom(1, wowTree)
          IN  /\ stagePc' = then.pc
              /\ emitted' = emitted \o <<Percent(20)>> \o then.progress
              /\ UNCHANGED <<history, stageReply, isRunning>>
       \/ /\ StageThrows
          /\ UNCHANGED emitted
    /\ UNCHANGED <<sourceRoot, stagedTree, archived>>
    /\ UNCHANGED <<envVars, schedVars, codecVars, restoreVars, fired, pc, kind, startTime, backupPath,
                   raised, tempDir, backupDir, reply>>

\* copyWoWFiles: await robocopyFolder / copyFolderRecursive(sourceFolder,
\* destFolder), then the loop up to its next await.  failed = the entries
\* of the folder whose copy fails; fatal = the copy cannot start at all
\* (the folder cannot be read or created, robocopy cannot be run)
StageCopyFolder ==
    /\ stagePc.at = "copy"
    /\ LET folder == foldersToBackup[stagePc.ix]
           content == Val(wowTree[folder])
       IN  \/ \E failed \in SUBSET content :
                 /\ stagedTree' = [stagedTree EXCEPT ![folder] = Some(content \ failed)]
                 /\ IF BackupCopyThrows(content \ failed, failed)
                    THEN /\ StageThrows
                         /\ UNCHANGED emitted
                    ELSE LET then == copyWoWFilesFrom(stagePc.ix + 1, wowTree)
                         IN  /\ stagePc' = then.pc
                             /\ emitted' = emitted \o then.progress
                             /\ UNCHANGED <<history, stageReply, isRunning>>
           \/ \* fatal
              /\ StageThrows
              /\ UNCHANGED <<stagedTree, emitted>>
    /\ UNCHANGED <<sourceRoot, archived>>
    /\ UNCHANGED <<envVars, schedVars, codecVars, restoreVars, fired, pc, kind, startTime, backupPath,
                   raised, tempDir, backupDir, reply>>

\* performBackup: await compressDirectory, which reports the percentages
\* of its 'progress' events and 100 on 'close'; then progress 90
StageCompress ==
    /\ stagePc.at = "compress"
    /\ \E reported \in {<<>>} \cup {<<p>> : p \in CompressPercents} :
          \/ /\ emitted' = emitted \o [i \in 1..Len(reported) |-> Percent(reported[i])]
                                    \o <<Percent(100), Percent(90)>>
             /\ backupDir' = WriteArchive(backupDir, generateBackupFileName(now), now)
             /\ archived' = Some(stagedTree)
             /\ stagePc' = RestoreAt("cleanup")
             /\ UNCHANGED <<history, stageReply, isRunning>>
          \/ /\ emitted' = emitted \o [i \in 1..Len(reported) |-> Percent(reported[i])]
             /\ backupDir' \in {backupDir, WriteArchive(backupDir, generateBackupFileName(now), now)}
             /\ archived' = None
             /\ StageThrows
    /\ UNCHANGED <<sourceRoot, stagedTree>>
    /\ UNCHANGED <<envVars, schedVars, codecVars, restoreVars, fired, pc, kind, startTime, backupPath,
                   raised, tempDir, reply>>

\* performBackup: await cleanupTempDirectory (its catch swallows the
\* error), then progress 95
StageCleanup ==
    /\ stagePc.at = "cleanup"
    /\ stagedTree' \in {NoFolders, stagedTree}
    /\ emitted' = emitted \o <<Percent(95)>>
    /\ stagePc' = RestoreAt("prune")
    /\ UNCHANGED <<sourceRoot, stageReply, archived>>
    /\ UNCHANGED <<envVars, schedVars, codecVars, restoreVars, fired, isRunning, pc, kind, startTime,
                   backupPath, raised, history, tempDir, backupDir, reply>>

\* performBackup: await cleanOldBackups
StagePrune ==
    /\ stagePc.at = "prune"
    /\ \E failing \in SUBSET backupDir :
          backupDir' = cleanOldBackups(backupDir, config, now, failing)
    /\ stagePc' = RestoreAt("count")
    /\ UNCHANGED <<sourceRoot, stagedTree, stageReply, archived, emitted>>
    /\ UNCHANGED <<envVars, schedVars, codecVars, restoreVars, fired, isRunning, pc, kind, startTime,
                   backupPath, raised, history, tempDir, reply>>

\* performBackup: await countFilesInDirectory, addBackupEntry, progress
\* 100, finally
StageFinish ==
    /\ stagePc.at = "count"
    /\ history' = addBackupItem(history, backupDir, statSync, generateBackupFileName(now), now,
                                "manual", now - Val(startTime[1]),
                                countFilesInDirectory(stagedTree))
    /\ emitted' = emitted \o <<Percent(100)>>
    /\ stagePc' = RestoreAt("idle")
    /\ stageReply' = "ok"
    /\ isRunning' = LockAfterFinally
    /\ UNCHANGED <<sourceRoot, stagedTree, archived>>
    /\ UNCHANGED <<envVars, schedVars, codecVars, restoreVars, fired, pc, kind, startTime, backupPath,
                   raised, tempDir, backupDir, reply>>

\* BackupHistoryService.getValidatedHistory, called for the history view
\* once the backup has ended
StageValidate ==
    /\ stagePc.at = "idle" /\ stageReply # "none"
    /\ history' = getValidatedHistory(history, backupDir, statSync)
    /\ UNCHANGED <<envVars, schedVars, auxVars, isRunning, pc, kind, startTime, backupPath,
                   raised, tempDir, backupDir, reply>>

\* ------------------------------------------------------------ specification

\* configured (interval, unit) pairs
Schedules == {<<1, "minutes">>, <<0, "minutes">>}

Retentions == {30}

\* last scheduled run persisted by an earlier session: none, older than one
\* interval, younger than one interval
PersistedLastRuns == {None, Some(-2), Some(0)}

Configs ==
    {[schedulerEnabled |-> e, scheduleInterval |-> sc[1], scheduleUnit |-> sc[2],
      backupRetention |-> r] : e \in BOOLEAN, sc \in Schedules, r \in Retentions}

Init ==
    /\ now = 0
    /\ alive = TRUE
    /\ config \in Configs
    /\ lastScheduledBackup \in PersistedLastRuns
    /\ isRunning = FALSE
    /\ pc = [s \in Slots |-> "idle"]
    /\ kind = [s \in Slots |-> "none"]
    /\ startTime = [s \in Slots |-> None]
    /\ backupPath = [s \in Slots |-> None]
    /\ raised = [s \in Slots |-> "none"]
    /\ history = <<>>
    /\ tempDir = "absent"
    /\ backupDir = {}
    /\ reply = "none"
    /\ isActive = FALSE
    /\ scheduledJob = None
    /\ fallbackInterval = None
    /\ oneShot = 0
    /\ nextRunTime = None
    /\ lastRunTime = lastScheduledBackup
    /\ escaped = FALSE
    /\ CodecIdle
    /\ fired = 0
    /\ RestoreIdle
    /\ StageIdle

Next ==
    \/ RunBackup
    \/ \E s \in Slots : BackupMkTemp(s)
    \/ \E s \in Slots : BackupMkDest(s)
    \/ \E s \in Slots : BackupCopy(s)
    \/ \E s \in Slots : BackupCompress(s)
    \/ \E s \in Slots : BackupCleanup(s)
    \/ \E s \in Slots : BackupPrune(s)
    \/ \E s \in Slots : BackupRecord(s)
    \/ RestoreBackup
    \/ \E s \in Slots : RestoreMkdir(s)
    \/ \E s \in Slots : RestoreExtract(s)
    \/ \E s \in Slots : RestoreFiles(s)
    \/ \E s \in Slots : RestoreCleanup(s)
    \/ Start
    \/ Stop
    \/ FirePrimary
    \/ FireFallback
    \/ FireOneShot
    \/ Tick

Spec == Init /\ [][Next]_vars

\* every awaited step of an operation in flight eventually settles
FairSpec ==
    /\ Spec
    /\ \A s \in Slots :
          /\ WF_vars(BackupMkTemp(s))
          /\ WF_vars(BackupMkDest(s))
          /\ WF_vars(BackupCopy(s))
          /\ WF_vars(BackupCompress(s))
          /\ WF_vars(BackupCleanup(s))
          /\ WF_vars(BackupPrune(s))
          /\ WF_vars(BackupRecord(s))
          /\ WF_vars(RestoreMkdir(s))
          /\ WF_vars(RestoreExtract(s))
          /\ WF_vars(RestoreFiles(s))
          /\ WF_vars(RestoreCleanup(s))

\* ---------------------------------------------------- codec specification
\* compressDirectory of a tree followed by extractArchive of its archive.

\* no operation in flight, scheduler stopped, default retention
Quiescent ==
    /\ now = 0
    /\ alive = TRUE
    /\ config = [schedulerEnabled |-> FALSE, scheduleInterval |-> 1,
                 scheduleUnit |-> "hours", backupRetention |-> DefaultRetentionDays]
    /\ lastScheduledBackup = None
    /\ isRunning = FALSE
    /\ pc = [s \in Slots |-> "idle"]
    /\ kind = [s \in Slots |-> "none"]
    /\ startTime = [s \in Slots |-> None]
    /\ backupPath = [s \in Slots |-> None]
    /\ raised = [s \in Slots |-> "none"]
    /\ history = <<>>
    /\ tempDir = "absent"
    /\ backupDir = {}
    /\ reply = "none"
    /\ isActive = FALSE
    /\ scheduledJob = None
    /\ fallbackInterval = None
    /\ oneShot = 0
    /\ nextRunTime = None
    /\ lastRunTime = None
    /\ escaped = FALSE

InitCodec ==
    /\ Quiescent
    /\ fired = 0
    /\ RestoreIdle
    /\ StageIdle
    /\ sourceDir \in Trees
    /\ archive = None
    /\ outputDir \in {EmptyTree, StaleTree}
    /\ codecPc = "start"
    /\ methodIx = 1
    /\ attempts = <<>>
    /\ readFailure = None
    /\ warnings = 0
    /\ delivered = <<>>

NextCodec ==
    \/ CompressDirectory
    \/ ExtractArchive
    \/ ExtractWithMethod

CodecSpec == InitCodec /\ [][NextCodec]_vars

\* -------------------------------------------------- restore specification
\* Restores of archives into a WoW folder, one after the other.

MaxRestores == 2

Folder(fs) == Some(fs)

\* contents of the archives a user restores: a complete one, one without
\* the WTF folder
ArchiveContents ==
    { [f \in FolderNames |-> IF f = "Screenshots" THEN None ELSE Folder({"x.lua"})],
      [f \in FolderNames |-> IF f = "WTF" THEN None ELSE Folder({"y.lua"})] }

\* the WoW folder before the first restore
InitialWowTrees ==
    { [f \in FolderNames |-> Folder({"y.lua"})],
      [f \in FolderNames |-> IF f = "Interface" THEN None ELSE Folder({"x.lua", "y.lua"})] }

InitRestore ==
    /\ Quiescent
    /\ CodecIdle
    /\ fired = 0
    /\ sourceRoot = "present"
    /\ stagedTree = NoFolders
    /\ stagePc = RestoreAt("idle")
    /\ stageReply = "none"
    /\ archived = None
    /\ emitted = <<>>
    /\ platform \in Platforms
    /\ wowTree \in InitialWowTrees
    /\ restoreTree = NoFolders
    /\ restoring = None
    /\ restorePc = RestoreAt("idle")
    /\ restoreReply = "none"
    /\ restoresLeft = MaxRestores

NextRestore ==
    \/ \E content \in ArchiveContents : StartRestore(content)
    \/ EnsureRestoreDir
    \/ ExtractBackup
    \/ RemoveDestFolder
    \/ CopyRestoredFolder
    \/ CleanupRestoreDir

RestoreSpec == InitRestore /\ [][NextRestore]_vars

\* -------------------------------------------------- staging specification
\* One manual backup of a WoW folder, over the shapes the folder can have.

\* the WoW version folder: complete, without WTF, without Interface, with
\* the two required folders only
SourceTrees ==
    { [f \in FolderNames |-> Folder(Files)],
      [f \in FolderNames |-> IF f = "WTF" THEN None ELSE Folder({"x.lua"})],
      [f \in FolderNames |-> IF f = "Interface" THEN None ELSE Folder({"y.lua"})],
      [f \in FolderNames |-> IF f = "Screenshots" THEN None ELSE Folder(Files)] }

InitStaging ==
    /\ Quiescent
    /\ CodecIdle
    /\ fired = 0
    /\ platform \in Platforms
    /\ \/ sourceRoot \in {"noRoot", "noVersion"} /\ wowTree = NoFolders
       \/ sourceRoot = "present" /\ wowTree \in SourceTrees
    /\ restoreTree = NoFolders
    /\ restoring = None
    /\ restorePc = RestoreAt("idle")
    /\ restoreReply = "none"
    /\ restoresLeft = 0
    /\ stagedTree = NoFolders
    /\ stagePc = RestoreAt("idle")
    /\ stageReply = "none"
    /\ archived = None
    /\ emitted = <<>>

NextStaging ==
    \/ StartBackup
    \/ StageEnsureTemp
    \/ StageEnsureDest
    \/ StageCopyFolder
    \/ StageCompress
    \/ StageCleanup
    \/ StagePrune
    \/ StageFinish
    \/ StageValidate

StagingSpec == InitStaging /\ [][NextStaging]_vars

\* -------------------------------------------------- pruning specification
\* A backup that has reached its pruning step, over every small content of
\* the destination directory left by earlier sessions.

PruneNow == 70 * MinutesPerDay

\* days on which earlier archives were written: two in the first month,
\* three in the second (the last one exactly 30 days old), one recent
ArchiveDays == {5, 10, 32, 39, 40, 69}

PruneRetentions == {30, 7}

\* retention values that are not a positive number of days
EdgeRetentions == {0, -1}

ForeignDay == 5

\* files of the destination directory that no backup wrote, all old:
\* WoW-Backup-old.zip, addons.zip, WoW-Backup-<stamp>.log
ForeignNames ==
    { [prefix |-> BackupPrefix, stamp |-> None, ext |-> ZipExt],
      [prefix |-> "", stamp |-> None, ext |-> ZipExt],
      [prefix |-> BackupPrefix, stamp |-> Some(ForeignDay * MinutesPerDay), ext |-> ".log"] }

PruneStart(retentions) ==
    /\ now = PruneNow
    /\ alive = TRUE
    /\ config \in {[schedulerEnabled |-> FALSE, scheduleInterval |-> 1,
                    scheduleUnit |-> "hours", backupRetention |-> r] : r \in retentions}
    /\ lastScheduledBackup = None
    /\ isRunning = TRUE
    /\ pc = [s \in Slots |-> IF s = 1 THEN "pruning" ELSE "idle"]
    /\ kind \in {[s \in Slots |-> IF s = 1 THEN k ELSE "none"] : k \in {"manual", "scheduled"}}
    /\ startTime = [s \in Slots |-> IF s = 1 THEN Some(PruneNow) ELSE None]
    /\ backupPath = [s \in Slots |-> IF s = 1 THEN Some(generateBackupFileName(PruneNow)) ELSE None]
    /\ raised = [s \in Slots |-> "none"]
    /\ history = <<>>
    /\ tempDir = "absent"
    /\ \E days \in SUBSET ArchiveDays :
          /\ Cardinality(days) <= MaxArchives
          /\ \E foreign \in SUBSET ForeignNames :
                backupDir = {ArchiveFile(generateBackupFileName(d * MinutesPerDay),
                                         d * MinutesPerDay) : d \in days}
                              \cup {ArchiveFile(generateBackupFileName(PruneNow), PruneNow)}
                              \cup {DirFile(n, ForeignDay * MinutesPerDay) : n \in foreign}
    /\ reply = "none"
    /\ isActive = FALSE
    /\ scheduledJob = None
    /\ fallbackInterval = None
    /\ oneShot = 0
    /\ nextRunTime = None
    /\ lastRunTime = None
    /\ escaped = FALSE
    /\ CodecIdle
    /\ fired = 0
    /\ RestoreIdle
    /\ StageIdle

InitPrune == PruneStart(PruneRetentions)

NextPrune ==
    \/ \E s \in Slots : BackupPrune(s)
    \/ \E s \in Slots : BackupRecord(s)

PruneSpec == InitPrune /\ [][NextPrune]_vars

InitPruneEdge == PruneStart(EdgeRetentions)

PruneEdgeSpec == InitPruneEdge /\ [][NextPrune]_vars

\* ------------------------------------------------------------------ claims

InFlight == {s \in Slots : pc[s] # "idle"}

\* C1: at most one backup or restore operation is past the entry guard at
\* any time, under every interleaving of manual requests, scheduled fires
\* and restore requests.
C1_SingleFlight == Cardinality(InFlight) <= 1

\* an operation is in flight and a request has been rejected meanwhile
C1_Witness ==
    /\ \E s \in Slots : pc[s] \notin {"idle", "hung"} /\ kind[s] = "restore"
    /\ reply = "already_running"

\* the timer callbacks and the manual entry point that call performBackup
BackupRequested == RunBackup \/ FirePrimary \/ FireFallback \/ FireOneShot

\* C2: a performBackup issued while the run lock is held fails at once with
\* the already-running error, starts no operation then or later, and adds
\* no history record; while an operation stays in flight the history does
\* not change.
C2_RejectedNotQueued ==
    [][ /\ (isRunning /\ BackupRequested) =>
              /\ reply' = "already_running"
              /\ UNCHANGED <<history, pc, kind, startTime, isRunning, tempDir, backupDir>>
        /\ (\E s \in Slots : pc[s] # "idle" /\ pc'[s] # "idle") => history' = history
      ]_vars

\* a second backup was rejected while the first one, not yet recorded, runs
C2_Witness ==
    /\ \E s \in Slots : pc[s] \notin {"idle", "hung"} /\ kind[s] \in {"manual", "scheduled"}
    /\ reply = "already_running"
    /\ history = <<>>

BackupKinds == {"manual", "scheduled"}

\* the awaits of performBackup that only an exception can leave early
ThrowingStages == {"mkTemp", "mkDest", "copying", "compressing"}

FailedRecord(type, duration) == [status |-> "failed", type |-> type, duration |-> duration]

\* the outcome Failed of a backup of the given type that ran for duration
EndsFailed(type, duration) ==
    /\ reply' = "error"
    /\ history' = <<FailedRecord(type, duration)>> \o history
    /\ ~isRunning'

FireStep == FirePrimary \/ FireFallback \/ FireOneShot

C4_EveryOperationEnds ==
    /\ \A s \in Slots : (pc[s] # "idle") ~> (pc[s] = "idle")
    /\ isRunning ~> ~isRunning

IntervalMinutes == calculateIntervalMinutes(config.scheduleInterval, config.scheduleUnit)

ExactlyOneArmed == (scheduledJob # None) # (fallbackInterval # None)

\* C5: start() with the scheduler enabled and a positive interval ends
\* Running, on the fallback timer when the cron registration throws or
\* returns no job; while Running exactly one of the two mechanisms is
\* armed; start() on a running scheduler arms nothing.
C5_StartEndsRunning ==
    [][ /\ isActive' => ExactlyOneArmed'
        /\ (Start /\ config.schedulerEnabled /\ IntervalMinutes > 0) => isActive'
        /\ (Start /\ isActive) => UNCHANGED <<scheduledJob, fallbackInterval, oneShot>>
      ]_vars

\* the scheduler runs on the fallback timer
C5_Witness ==
    /\ isActive
    /\ fallbackInterval # None
    /\ scheduledJob = None

SameArming ==
    /\ isActive' = isActive
    /\ (scheduledJob' # None) = (scheduledJob # None)
    /\ (fallbackInterval' # None) = (fallbackInterval # None)

\* C6: the error of a scheduled backup (a failed stage, or a rejection
\* because the lock is held) never leaves the fire handler.  A fire changes
\* neither Running nor which mechanism is armed, a next-run time is set
\* when its handler ends, and the handler starts no second run.
C6_FireErrorContained ==
    [][ /\ ~escaped'
        /\ FireStep => SameArming
        /\ (FireStep /\ pc' = pc) => (nextRunTime' # None /\ isRunning' = isRunning)
        /\ \A s \in Slots :
              (kind[s] = "scheduled" /\ pc[s] # "idle" /\ pc'[s] = "idle")
                  => /\ SameArming
                     /\ nextRunTime' # None
                     /\ pc' = [pc EXCEPT ![s] = "idle"]
      ]_vars

\* a scheduled backup has failed and the scheduler is still running, armed,
\* with a next-run time
C6_Witness ==
    /\ \E i \in 1..Len(history) :
          history[i].type = "scheduled" /\ history[i].status = "failed"
    /\ reply = "error"
    /\ isActive
    /\ ExactlyOneArmed
    /\ nextRunTime # None

\* C7: a stopped scheduler triggers no scheduled backup: every fire happens
\* while the scheduler is Running.
C7_NoFireAfterStop == [][ FireStep => isActive ]_vars

\* C8: whenever the scheduler is not Running, getNextRunTime() returns null.
C8_StoppedHasNoNextRun == ~isActive => getNextRunTime = None

\* a recurring timer is due in the current minute and has not fired yet
FireDue ==
    \/ scheduledJob # None /\ Val(scheduledJob).next = now
    \/ fallbackInterval # None /\ Val(fallbackInterval).next = now

\* C9: while the scheduler is Running, getNextRunTime() returns a time
\* strictly later than now.
C9_NextRunInFuture ==
    (isActive /\ ~FireDue) => (getNextRunTime # None /\ Val(getNextRunTime) > now)

\* the archives older than the recency window
OldArchives ==
    {f \in backupDir : f.isBackup /\ now - f.mtime > config.backupRetention * MinutesPerDay}

\* C10: among the archives older than the recency window that share a
\* calendar month, pruning keeps exactly the one with the greatest
\* timestamp and removes the others.
C10_MonthlyKeeper ==
    [][ \A s \in Slots :
           (pc[s] = "pruning" /\ pc'[s] = "counting") =>
               \A f \in OldArchives :
                   (f \in backupDir') <=>
                       (\A g \in OldArchives :
                            MonthOf(g.mtime) = MonthOf(f.mtime) => g.mtime <= f.mtime)
      ]_vars

PruneStep(s) == pc[s] = "pruning" /\ pc'[s] = "counting"

AgeOf(f) == now - f.mtime

\* C11: pruning keeps every archive whose age is at most the configured
\* retention period, the age equal to it included, whatever its month.
C11_RecentKept ==
    [][ \A s \in Slots :
           PruneStep(s) =>
               \A f \in backupDir :
                   (f.isBackup /\ AgeOf(f) <= config.backupRetention * MinutesPerDay)
                       => f \in backupDir'
      ]_vars

\* pruning under a 7-day retention has run without an error: an archive of
\* the day before is kept and nothing older than a week is left
C11_Witness ==
    /\ pc[1] = "counting" /\ raised[1] = "none"
    /\ config.backupRetention = 7
    /\ \E f \in backupDir : f.isBackup /\ AgeOf(f) = MinutesPerDay
    /\ \A f \in backupDir : f.isBackup => AgeOf(f) <= 7 * MinutesPerDay

\* the newest archives of their calendar month
NewestOfMonth(files) ==
    {f \in files : \A g \in files : MonthOf(g.mtime) = MonthOf(f.mtime) => g.mtime <= f.mtime}

\* C12: with a retention of zero or fewer days pruning keeps exactly the
\* newest archive of each calendar month and removes all the others.
C12_NonPositiveRetention ==
    [][ \A s \in Slots :
           (PruneStep(s) /\ config.backupRetention <= 0) =>
               LET archives == {f \in backupDir : f.isBackup}
               IN  {f \in backupDir' : f.isBackup} = NewestOfMonth(archives)
      ]_vars

\* the archive naming convention: <prefix><time stamp>.zip
MatchesConvention(name) ==
    name.prefix = BackupPrefix /\ name.stamp # None /\ name.ext = ZipExt

\* C13: pruning never deletes a file of the destination directory whose
\* name does not match the archive naming convention, whatever its age.
C13_ForeignFilesKept ==
    [][ \A s \in Slots :
           PruneStep(s) =>
               \A f \in backupDir : ~MatchesConvention(f.name) => f \in backupDir'
      ]_vars

\* the method of an attempt neither threw nor left the count at or under
\* the threshold
Cleared(a) == ~a.threw /\ ClearsThreshold(a.count)

\* C14: extractArchive tries yauzl, unzipper and 7z in that order; a later
\* method is tried only when every earlier one threw or under-produced, none
\* is tried after one has cleared the threshold, and the call fails with
\* 'All extraction methods failed' only if all three threw or under-produced.
C14_FixedOrder ==
    /\ Len(attempts) <= Len(methods)
    /\ \A i \in 1..Len(attempts) : attempts[i].name = methods[i]
    /\ \A i \in 1..Len(attempts) : i < Len(attempts) => ~Cleared(attempts[i])
    /\ codecPc = "extracting" => \A i \in 1..Len(attempts) : ~Cleared(attempts[i])
    /\ codecPc = "exhausted" =>
           /\ Len(attempts) = Len(methods)
           /\ \A i \in 1..Len(attempts) : ~Cleared(attempts[i])
    /\ codecPc = "done" => Cleared(attempts[Len(attempts)])

\* yauzl threw, unzipper resolved under the threshold, 7z cleared it
C14_Witness ==
    /\ codecPc = "done"
    /\ Len(attempts) = 3
    /\ attempts[1].threw
    /\ ~attempts[2].threw /\ ~ClearsThreshold(attempts[2].count)

\* no method threw or skipped an entry, and outputDir was empty at the start
FaultFree ==
    /\ readFailure = None
    /\ \A i \in 1..Len(attempts) : ~attempts[i].threw /\ attempts[i].whole
    /\ StaleTree.files \cap outputDir.files = {}

\* C15: for every source tree, of any number of files, compressing it and
\* extracting the archive into an empty directory succeeds and yields
\* exactly the files of the source.
C15_RoundTrip ==
    (codecPc \in {"done", "exhausted"} /\ FaultFree)
        => (codecPc = "done" /\ outputDir = sourceDir)

\* the folders an archive must hold to be restored
RequiredFolders == {"Interface", "WTF"}

LacksRequired(tree) == \E f \in RequiredFolders : tree[f] = None

\* C16: a restore whose extracted tree lacks a required top-level folder
\* fails once the extraction is over, before any destination folder is
\* removed or overwritten, and never reports success.
C16_VerifiedBeforeRestoring ==
    [][ (restorePc.at = "extract" /\ LacksRequired(restoreTree'))
            => (restoreReply' = "error" /\ restorePc'.at = "idle" /\ wowTree' = wowTree)
      ]_vars

\* C17: after a successful restore each destination folder that has a
\* counterpart in the archive holds exactly the archive's content for that
\* folder, and a restore never changes a destination folder that has no
\* counterpart in the archive.
C17_DestructiveOverwrite ==
    [][ /\ (restorePc.at = "cleanup" /\ restoreReply' = "ok") =>
              \A f \in FolderNames :
                  Val(restoring)[f] # None => wowTree[f] = Val(restoring)[f]
        /\ restoring # None =>
              \A f \in FolderNames :
                  Val(restoring)[f] = None => wowTree'[f] = wowTree[f]
      ]_vars

\* the source root or the version folder is missing, or the version folder
\* lacks one of the two required folders
SourceInvalid == sourceRoot # "present" \/ LacksRequired(wowTree)

\* C18: a backup whose source root or version folder is missing, or whose
\* version folder lacks Interface or WTF, fails in validation, before any
\* staging directory is created or any file copied: a failed history record
\* is written and the run lock released.
C18_InvalidSourceRejected ==
    [][ (StartBackup /\ SourceInvalid) =>
            /\ stageReply' = "error" /\ stagePc'.at = "idle"
            /\ ~isRunning'
            /\ Len(history') = Len(history) + 1 /\ Head(history').status = "failed"
      ]_vars

\* C19: the percentages handed to the progress callback within one
\* operation never decrease.
C19_ProgressMonotone ==
    \A i \in 1..(Len(emitted) - 1) : emitted[i] <= emitted[i + 1]

\* C20: the copy of a folder during which single entries fail never ends
\* the copy stage: the other entries are copied and the backup goes on.
C20_CopyContinues ==
    [][ (stagePc.at = "copy" /\ stagedTree' # stagedTree) =>
            /\ stagePc'.at # "idle"
            /\ stageReply' # "error"
      ]_vars

\* -------------------------------------------------- history specification
\* The history store and the destination directory over a few operations of
\* the history service. The session starts with the directory and the store
\* left by InitialArchiveCounts successful backups: one archive per backup
\* and the items of the maxHistoryItems newest of them.

MaxHistoryOps == 2

InitialArchiveCounts == {0, 2, maxHistoryItems + 1}

\* the archive of the backup made at time t
ArchiveAt(t) == ArchiveFile(generateBackupFileName(t), t)

\* a file that is in the directory without being an archive
NotesFile == DirFile([prefix |-> "notes", stamp |-> None, ext |-> ".txt"], 0)

\* fs.statSync(filePath).size of the files of the directory
StatSize == [f \in backupDir |-> 1]

InitHistory ==
    /\ now = 0
    /\ alive = TRUE
    /\ config = [schedulerEnabled |-> FALSE, scheduleInterval |-> 1,
                 scheduleUnit |-> "hours", backupRetention |-> DefaultRetentionDays]
    /\ lastScheduledBackup = None
    /\ isRunning = FALSE
    /\ pc = [s \in Slots |-> "idle"]
    /\ kind = [s \in Slots |-> "none"]
    /\ startTime = [s \in Slots |-> None]
    /\ backupPath = [s \in Slots |-> None]
    /\ raised = [s \in Slots |-> "none"]
    /\ tempDir = "absent"
    /\ reply = "none"
    /\ isActive = FALSE
    /\ scheduledJob = None
    /\ fallbackInterval = None
    /\ oneShot = 0
    /\ nextRunTime = None
    /\ lastRunTime = None
    /\ escaped = FALSE
    /\ CodecIdle
    /\ fired = 0
    /\ RestoreIdle
    /\ StageIdle
    /\ \E n \in InitialArchiveCounts :
          /\ backupDir = {ArchiveAt(t - n) : t \in 1..n} \cup {NotesFile}
          /\ history = Take([i \in 1..n |->
                                backupItem(generateBackupFileName(1 - i), 1, 1 - i,
                                           "scheduled", 0, 0)],
                            maxHistoryItems)

HistoryFrame ==
    UNCHANGED <<alive, config, lastScheduledBackup, isRunning, pc, kind, startTime,
                backupPath, raised, tempDir, reply, schedVars, auxVars>>

\* a backup ends at the next instant: its archive has been written, or has
\* been removed again, when addBackupEntry is called
HistoryAddBackup ==
    /\ now < MaxHistoryOps
    /\ now' = now + 1
    /\ \E type \in {"manual", "scheduled"} :
          \/ /\ backupDir' = backupDir \cup {ArchiveAt(now')}
             /\ history' = addBackupItem(history, backupDir', [f \in backupDir' |-> 1],
                                         generateBackupFileName(now'), now', type, 0, 0)
          \/ /\ backupDir' = backupDir
             /\ history' = addBackupItem(history, backupDir, StatSize,
                                         generateBackupFileName(now'), now', type, 0, 0)
    /\ HistoryFrame

\* a backup fails at the next instant: addFailedBackupEntry
HistoryAddFailed ==
    /\ now < MaxHistoryOps
    /\ now' = now + 1
    /\ \E type \in {"manual", "scheduled"} :
          history' = addFailedBackupItem(history, generateBackupFileName(now'), now', type, 0)
    /\ HistoryFrame
    /\ UNCHANGED backupDir

\* BackupHistoryService.getValidatedHistory: the directory is scanned and
\* the result stored; when the scan throws, the store is left as it is
HistoryValidate ==
    /\ now < MaxHistoryOps
    /\ now' = now + 1
    /\ \/ history' = getValidatedHistory(history, backupDir, StatSize)
       \/ history' = history
    /\ HistoryFrame
    /\ UNCHANGED backupDir

\* BackupHistoryService.deleteBackup(id, deleteFile) of the newest or of the
\* oldest item
HistoryDelete ==
    /\ now < MaxHistoryOps
    /\ now' = now + 1
    /\ \E ix \in {1, Len(history)} \cap (1..Len(history)), deleteFile \in BOOLEAN :
          /\ history' = splice(history, ix)
          /\ backupDir' = IF deleteFile /\ history[ix].hasPath
                          THEN {f \in backupDir : f.name # history[ix].name}
                          ELSE backupDir
    /\ HistoryFrame

\* BackupHistoryService.clearHistory
HistoryClear ==
    /\ now < MaxHistoryOps
    /\ now' = now + 1
    /\ history' = <<>>
    /\ HistoryFrame
    /\ UNCHANGED backupDir

NextHistory ==
    \/ HistoryAddBackup
    \/ HistoryAddFailed
    \/ HistoryValidate
    \/ HistoryDelete
    \/ HistoryClear

HistorySpec == InitHistory /\ [][NextHistory]_vars

\* C22: after any sequence of appends, reconciliations and deletions the
\* history store holds at most maxHistoryItems items, newest first.
C22_CappedNewestFirst ==
    /\ Len(history) <= maxHistoryItems
    /\ \A i \in 1..Len(history) - 1 : history[i].date >= history[i + 1].date

\* ------------------------------------------------- cron specification
\* The scheduler running on the cron job that start() registered, over a
\* few fires, for configured intervals that divide the hour or the day and
\* for intervals that do not.

MaxFires == 3

CronIntervals == {1, 2, 5, 7, 45, 90}

CronUnits == {"minutes", "hours", "days"}

\* minute of the month at which start() is called
CronStartTimes == {0, 3}

InitCron ==
    /\ now \in CronStartTimes
    /\ alive = TRUE
    /\ config \in {[schedulerEnabled |-> TRUE, scheduleInterval |-> i, scheduleUnit |-> u,
                     backupRetention |-> DefaultRetentionDays] :
                        i \in CronIntervals, u \in CronUnits}
    /\ lastScheduledBackup = None
    /\ isRunning = FALSE
    /\ pc = [s \in Slots |-> "idle"]
    /\ kind = [s \in Slots |-> "none"]
    /\ startTime = [s \in Slots |-> None]
    /\ backupPath = [s \in Slots |-> None]
    /\ raised = [s \in Slots |-> "none"]
    /\ history = <<>>
    /\ tempDir = "absent"
    /\ backupDir = {}
    /\ reply = "none"
    /\ isActive = FALSE
    /\ scheduledJob = None
    /\ fallbackInterval = None
    /\ oneShot = 0
    /\ nextRunTime = None
    /\ lastRunTime = None
    /\ escaped = FALSE
    /\ CodecIdle
    /\ RestoreIdle
    /\ StageIdle
    /\ fired = 0

\* SchedulerService.start when schedule.scheduleJob returns a job
CronStart ==
    /\ ~isActive
    /\ LET iv == calculateIntervalMinutes(config.scheduleInterval, config.scheduleUnit)
           h == startHandles("job", iv)
       IN  /\ scheduledJob' = h.job
           /\ isActive' = TRUE
           /\ nextRunTime' = calculateAndSetNextRunTime(iv, lastRunTime, now)
    /\ UNCHANGED <<envVars, orchVars, fallbackInterval, oneShot, lastRunTime, escaped, auxVars>>

\* time passes up to the job's next invocation and the job fires: the
\* library re-arms it, executeBackup takes the time of the fire as
\* lastRunTime and, after the backup, updates nextRunTime from the job
CronFire ==
    /\ isActive /\ scheduledJob # None
    /\ fired < MaxFires
    /\ now' = Val(scheduledJob).next
    /\ LET rule == Val(scheduledJob).rule
           job == Some([rule |-> rule, next |-> NextInvocation(rule, now')])
       IN  /\ scheduledJob' = job
           /\ nextRunTime' = updateNextRunTime(job, Some(now'), config, now')
    /\ lastRunTime' = Some(now')
    /\ fired' = fired + 1
    /\ UNCHANGED <<alive, config, lastScheduledBackup, orchVars, isActive, fallbackInterval,
                   oneShot, escaped, codecVars, restoreVars, stageVars>>

NextCron ==
    \/ CronStart
    \/ CronFire

CronSpec == InitCron /\ [][NextCron]_vars

\* C30: while the scheduler runs on the cron job, consecutive fires are
\* separated by the configured interval (interval x unit, in minutes), the
\* period of the fallback timer, for every positive interval.
C30_FiresOneIntervalApart ==
    [][ (CronFire /\ lastRunTime # None) =>
            now' - Val(lastRunTime)
                = calculateIntervalMinutes(config.scheduleInterval, config.scheduleUnit)
      ]_vars

\* C21: a compression during which one file of the tree cannot be read,
\* whatever the class of the error, completes successfully with an archive
\* of all the other files, and logs exactly one warning.
C21_ReadFailureSkipped ==
    [][ (codecPc = "start" /\ readFailure' # None) =>
            /\ codecPc' = "compressed"
            /\ archive' = Some([sourceDir EXCEPT !.files = @ \ {Val(readFailure').file}])
            /\ warnings' = 1
      ]_vars

\* C23: on every scheduled fire, whether the backup succeeds, fails or is
\* rejected, the last-run time is persisted: once the fire handler has
\* finished, the persisted last-run time equals the in-memory last-run time.
C23_LastRunPersisted ==
    [][ /\ \A s \in Slots :
              (kind[s] = "scheduled" /\ pc[s] # "idle" /\ pc'[s] = "idle" /\ alive')
                  => lastScheduledBackup' = lastRunTime'
        /\ ((FirePrimary \/ FireFallback \/ FireOneShot) /\ pc' = pc)
                  => lastScheduledBackup' = lastRunTime'
      ]_vars

\* C24: a successful backup appends exactly one history record, with
\* outcome completed, whose byte size is the size of the archive and whose
\* file count is the number of files that were staged and compressed into
\* the archive.
C24_RecordDescribesArchive ==
    [][ (stagePc.at = "count" /\ stageReply' = "ok") =>
            /\ Len(history') = Len(history) + 1
            /\ history'[1].status = "completed"
            /\ history'[1].size = archiveSize(Val(archived))
            /\ history'[1].filesCount = Some(countFilesInDirectory(Val(archived)))
      ]_vars

\* C25: when a backup ends, in success or in failure at any stage, its
\* staging directory has been removed.
C25_StagingRemoved ==
    (stagePc.at = "idle" /\ stageReply # "none") => stagedTree = NoFolders

\* C26: every percentage that compressDirectory hands to the progress
\* callback is a number within [0, 100], also when the total byte size is
\* 0, has not been computed yet, or is smaller than the bytes processed.
C26_PercentageInRange ==
    \A i \in 1..Len(delivered) :
        /\ delivered[i].kind = "finite"
        /\ delivered[i].value >= 0
        /\ delivered[i].value <= 100

\* the names of the files of the destination directory
NamesIn(files) == {f.name : f \in files}

\* C27: a backup that fails at any stage deletes no archive that already
\* existed in the destination directory: files leave the directory only in
\* the pruning step, the pruning step is entered only with the new archive
\* written, and a call that has entered it does not fail any more.
C27_FailureDeletesNothing ==
    [][ /\ ~(NamesIn(backupDir) \subseteq NamesIn(backupDir'))
              => \E s \in Slots : pc[s] = "pruning" /\ pc'[s] # "pruning"
        /\ \A s \in Slots :
              /\ (pc[s] # "pruning" /\ pc'[s] = "pruning")
                    => Val(backupPath'[s]) \in NamesIn(backupDir')
              /\ pc[s] = "pruning" => pc'[s] \in {"pruning", "counting"}
              /\ pc[s] = "counting"
                    => (pc'[s] = "counting" \/ (pc'[s] = "idle" /\ reply' = "ok"))
      ]_vars

\* a backup has failed while the archive of an earlier backup was in the
\* destination directory, and the archive is still there
C27_Witness ==
    /\ Len(history) = 2
    /\ history[1].status = "failed"
    /\ history[2].status = "completed"
    /\ reply = "error"
    /\ backupDir # {}

\* C28: after a backup reports success, the archive it has just created is
\* in the destination directory, for every configured retention value,
\* zero and negative included.
C28_NewArchiveSurvives ==
    [][ \A s \in Slots :
           (pc[s] = "counting" /\ pc'[s] = "idle" /\ reply' = "ok")
               => Val(backupPath[s]) \in NamesIn(backupDir')
      ]_vars

\* C29: after a backup has failed, no archive file of that attempt is left
\* in the destination directory, and history reconciliation reports no
\* completed record for it.
C29_FailedLeavesNoArchive ==
    stageReply = "error" =>
        /\ generateBackupFileName(now) \notin NamesIn(backupDir)
        /\ \A i \in 1..Len(history) : history[i].status # "completed"

====
